---- MODULE Spec2Model ----
(***************************************************************************)
(* rsyesql: parse(text) turns a text of "-- name: <tag>" declarations and  *)
(* query lines into an ordered map tag -> query (src/src/lib.rs).          *)
(*                                                                         *)
(* A string is a sequence of one-character strings.  The state machine is  *)
(* one call of parse: Normalize is the call of remove_multi_line_comments  *)
(* and lines(), and every later step is one iteration of the for loop.     *)
(***************************************************************************)
EXTENDS Naturals, Sequences, FiniteSets

VARIABLES
    text,       \* the argument of parse
    pc,         \* "start": before line 68, "scan": in the for loop, "done": returned
    norm,       \* remove_multi_line_comments(text)
    lns,        \* the lines of norm, each with the offset of its first character
    idx,        \* enumerate()'s index of the line the loop is at (0-based)
    last_type,  \* Option<LineType>: "None", "Tag" or "Query"
    last_tag,   \* Option<&str>: [some |-> FALSE] or [some |-> TRUE, v |-> tag]
    queries,    \* IndexMap<String, String>: a sequence of [key, value] in insertion order
    result,     \* the value parse returned, [kind |-> "none"] until it returns
    classes     \* history, read by no step: parse_line of every line of lns

vars == <<text, pc, norm, lns, idx, last_type, last_tag, queries, result, classes>>

----------------------------------------------------------------------------
(* Bounds of the inputs.                                                   *)

\* The longest input of Spec, in pieces (see Pieces).
MaxLines == 4

\* The longest input of SpecNorm, in tokens.
MaxTokens == 5

\* The longest input of SpecLine, in tokens.
MaxLineTokens == 5

----------------------------------------------------------------------------
(* Strings.                                                                *)

Min(S) == CHOOSE m \in S : \A k \in S : m <= k

Max(S) == CHOOSE m \in S : \A k \in S : m >= k

\* White_Space, as far as the inputs' alphabet goes: what \s matches and trim() removes.
IsSpace(c) == c \in {" ", "\t", "\n", "\r"}

\* Whether pat occurs in s at (1-based) position i.
StartsWithAt(s, pat, i) ==
    /\ i >= 1
    /\ i + Len(pat) - 1 <= Len(s)
    /\ SubSeq(s, i, i + Len(pat) - 1) = pat

\* The first position >= from where pat occurs in s; 0 when there is none.
find_from(s, pat, from) ==
    LET hits == {j \in from..Len(s) : StartsWithAt(s, pat, j)}
    IN  IF hits = {} THEN 0 ELSE Min(hits)

\* str::find: the first position of pat in s; 0 for None.
find(s, pat) == find_from(s, pat, 1)

\* The first position >= i of s that holds no whitespace; Len(s) + 1 when all do.
skip_ws(s, i) ==
    LET stops == {j \in i..Len(s) : ~IsSpace(s[j])}
    IN  IF stops = {} THEN Max({i, Len(s) + 1}) ELSE Min(stops)

\* s without its trailing whitespace.
trim_end(s) ==
    LET keep == {j \in 1..Len(s) : ~IsSpace(s[j])}
    IN  IF keep = {} THEN <<>> ELSE SubSeq(s, 1, Max(keep))

\* str::trim.
trim(s) ==
    LET e == trim_end(s)
    IN  SubSeq(e, skip_ws(e, 1), Len(e))

----------------------------------------------------------------------------
(* remove_multi_line_comments.                                             *)

\* The closure's replacement of one character of a match.
nc_mut_blank_all(c) == " "

nc(c) == IF c = "\r" THEN "\r" ELSE IF c = "\n" THEN "\n" ELSE " "

\* The closure of replace_all: the replacement of one match.
rep(cap) == [k \in 1..Len(cap) |-> nc(cap[k])]

\* Where the match that opens at position open ends: .*? takes the fewest
\* characters, so the match ends with the first */ that starts at open + 2 or
\* later.  The position is that of the closing *; 0 when there is none.
match_close_mut_greedy(s, open) ==
    LET hits == {j \in (open + 2)..Len(s) : StartsWithAt(s, <<"*", "/">>, j)}
    IN  IF hits = {} THEN 0 ELSE Max(hits)

match_close_mut_single_line(s, open) ==
    LET close == find_from(s, <<"*", "/">>, open + 2)
    IN  IF close # 0 /\ \E k \in open..close : s[k] = "\n" THEN 0 ELSE close

match_close(s, open) == find_from(s, <<"*", "/">>, open + 2)

\* Regex::replace_all from position from on: the leftmost match, replaced, and
\* then the matches after its end.
replace_all_mut_first_only(s, from) ==
    LET open  == find_from(s, <<"/", "*">>, from)
        close == IF open = 0 THEN 0 ELSE match_close(s, open)
    IN  IF open = 0 \/ close = 0
        THEN SubSeq(s, from, Len(s))
        ELSE SubSeq(s, from, open - 1)
             \o rep(SubSeq(s, open, close + 1))
             \o SubSeq(s, close + 2, Len(s))

RECURSIVE replace_all(_, _)
replace_all_mut_knows_line_comments(s, from) ==
    LET opens == {a \in from..(Len(s) - 1) :
                     /\ StartsWithAt(s, <<"/", "*">>, a)
                     /\ ~\E d \in 1..(a - 2) :
                            /\ StartsWithAt(s, <<"-", "-">>, d)
                            /\ \A k \in d..a : s[k] # "\n"}
        open  == IF opens = {} THEN 0 ELSE Min(opens)
        close == IF open = 0 THEN 0 ELSE match_close(s, open)
    IN  IF open = 0 \/ close = 0
        THEN SubSeq(s, from, Len(s))
        ELSE SubSeq(s, from, open - 1)
             \o rep(SubSeq(s, open, close + 1))
             \o replace_all(s, close + 2)

replace_all(s, from) ==
    LET open  == find_from(s, <<"/", "*">>, from)
        close == IF open = 0 THEN 0 ELSE match_close(s, open)
    IN  IF open = 0 \/ close = 0
        THEN SubSeq(s, from, Len(s))
        ELSE SubSeq(s, from, open - 1)
             \o rep(SubSeq(s, open, close + 1))
             \o replace_all(s, close + 2)

remove_multi_line_comments(s) == replace_all(s, 1)

----------------------------------------------------------------------------
(* str::lines.                                                             *)

\* The lines of s from position from on: a line ends with \n or with the end
\* of s, the \n is not part of it, nor is a \r right before the \n; a last
\* line that is empty is no line.  start is the position of the line's first
\* character in s.  (A \r that ends the text with no \n after it stays in the
\* last line, as in today's std; parse_line trims it either way.)
RECURSIVE lines_from(_, _)
lines_from(s, from) ==
    IF from > Len(s) THEN <<>>
    ELSE LET nl == find_from(s, <<"\n">>, from)
         IN  IF nl = 0
             THEN <<[start |-> from, s |-> SubSeq(s, from, Len(s))]>>
             ELSE LET raw == SubSeq(s, from, nl - 1)
                      cut == IF Len(raw) > 0 /\ raw[Len(raw)] = "\r"
                             THEN SubSeq(raw, 1, Len(raw) - 1)
                             ELSE raw
                  IN  <<[start |-> from, s |-> cut]>> \o lines_from(s, nl + 1)

lines(s) == lines_from(s, 1)

----------------------------------------------------------------------------
(* parse_line.                                                             *)

\* RE_TAG.captures(line): ^\s*--\s*name\s*:\s*(.*?)\s*$ .  No character a \s*
\* gives up can match the literal that follows it, so the match is decided
\* left to right; the lazy group takes the rest of the line up to its trailing
\* whitespace.
RE_TAG_mut_unanchored(line) ==
    LET at(p) ==
            LET i1 == skip_ws(line, p)
                i2 == skip_ws(line, i1 + 2)
                i3 == skip_ws(line, i2 + 4)
            IN  IF /\ StartsWithAt(line, <<"-", "-">>, i1)
                   /\ StartsWithAt(line, <<"n", "a", "m", "e">>, i2)
                   /\ StartsWithAt(line, <<":">>, i3)
                THEN skip_ws(line, i3 + 1)
                ELSE 0
        hits == {p \in 1..Len(line) : at(p) # 0}
    IN  IF hits # {}
        THEN [some |-> TRUE, cap |-> trim_end(SubSeq(line, at(Min(hits)), Len(line)))]
        ELSE [some |-> FALSE, cap |-> <<>>]

RE_TAG(line) ==
    LET i1 == skip_ws(line, 1)
        i2 == skip_ws(line, i1 + 2)
        i3 == skip_ws(line, i2 + 4)
        i4 == skip_ws(line, i3 + 1)
    IN  IF /\ StartsWithAt(line, <<"-", "-">>, i1)
           /\ StartsWithAt(line, <<"n", "a", "m", "e">>, i2)
           /\ StartsWithAt(line, <<":">>, i3)
        THEN [some |-> TRUE, cap |-> trim_end(SubSeq(line, i4, Len(line)))]
        ELSE [some |-> FALSE, cap |-> <<>>]

parse_line(line) ==
    LET caps == RE_TAG(line)
    IN  IF caps.some
        THEN [ty |-> "Tag", value |-> caps.cap]
        ELSE LET at  == find(line, <<"-", "-">>)
                 cut == IF at # 0 THEN SubSeq(line, 1, at - 1) ELSE line
                 t   == trim(cut)
             IN  IF t = <<>>
                 THEN [ty |-> "Empty", value |-> t]
                 ELSE [ty |-> "Query", value |-> t]

----------------------------------------------------------------------------
(* IndexMap.                                                               *)

\* The position of key k in map m; 0 when m has no such key.
get_index_of(m, k) ==
    LET at == {j \in 1..Len(m) : m[j].key = k}
    IN  IF at = {} THEN 0 ELSE Min(at)

\* and_modify's closure: format!("{} {}", *x, value).
and_modify_mut_swapped(x, value) == value \o <<" ">> \o x

and_modify(x, value) == x \o <<" ">> \o value

\* or_insert_with: a new entry goes to the end of the map.
or_insert_with_mut_front(m, k, value) == <<[key |-> k, value |-> value]>> \o m

or_insert_with(m, k, value) == Append(m, [key |-> k, value |-> value])

\* queries.entry(k).and_modify(..).or_insert_with(..)
entry_mut_always_insert(m, k, value) == or_insert_with(m, k, value)

entry(m, k, value) ==
    LET at == get_index_of(m, k)
    IN  IF at = 0
        THEN or_insert_with(m, k, value)
        ELSE [m EXCEPT ![at].value = and_modify(m[at].value, value)]

----------------------------------------------------------------------------
(* The inputs.                                                             *)

\* The pieces the inputs of Spec are made of, one or two lines each; an input
\* is up to MaxLines of them, one below the other.
Pieces ==
    { <<>>,                                                      \* an empty line
      <<" ", "-", "-", " ", "n", "a", "m", "e", " ", ":", " ", "y", " ", "\r">>,
                                                                 \* a tag y, spaced, before \r\n
      <<"-", "-", "n", "a", "m", "e", ":">>,                     \* a tag with no text
      <<"-", "-", "n", "a", "m", "e", ":", "x", "\n", "a">>,     \* --name:x and its query a
      <<" ", "b", " ", "-", "-", "c">>,                          \* a query and a line comment
      <<"-", "-", "c">>,                                         \* a line comment alone
      <<"/", "*">>,                                              \* a block comment opens
      <<"*", "/">> }                                             \* a block comment closes

\* The tokens the inputs of SpecNorm are made of.
Tokens ==
    { <<"/", "*">>, <<"*", "/">>, <<"/">>, <<"*">>, <<"\n">>, <<"\r">>, <<"a">> }

\* The tokens the inputs of SpecLine, single lines, are made of.
LineTokens ==
    { <<" ">>, <<"-", "-">>, <<"n", "a", "m", "e">>, <<":">>, <<"x">> }

\* The pieces the inputs of SpecComments are made of: block comments that open
\* inside line comments, and block comments that never close.
CommentPieces ==
    { <<>>,
      <<"-", "-", "n", "a", "m", "e", ":", "x", "\n", "b", " ", "-", "-", "/", "*">>,
                                                     \* --name:x and b --/*
      <<"-", "-", "n", "a", "m", "e", ":", "y", "\n", "c">>,
                                                     \* --name:y and c
      <<"-", "-", "n", "a", "m", "e", ":", "z">>,    \* --name:z
      <<"*", "/">>,                                  \* a block comment closes
      <<"*", "/", " ", "/", "*">> }                  \* one closes and one opens

\* The sequences over S of length 0..n.
SeqsUpTo(S, n) == UNION {[1..k -> S] : k \in 0..n}

\* parts[1] sep parts[2] sep ... parts[n]
RECURSIVE join(_, _)
join(parts, sep) ==
    IF Len(parts) = 0 THEN <<>>
    ELSE IF Len(parts) = 1 THEN parts[1]
    ELSE parts[1] \o sep \o join(Tail(parts), sep)

----------------------------------------------------------------------------
(* parse.                                                                  *)

None == [some |-> FALSE]

Some(v) == [some |-> TRUE, v |-> v]

Start(t) ==
    /\ text = t
    /\ pc = "start"
    /\ norm = <<>>
    /\ lns = <<>>
    /\ idx = 0
    /\ last_type = "None"
    /\ last_tag = None
    /\ queries = <<>>
    /\ result = [kind |-> "none"]
    /\ classes = <<>>

Init == \E ls \in SeqsUpTo(Pieces, MaxLines) : Start(join(ls, <<"\n">>))

InitNorm == \E ts \in SeqsUpTo(Tokens, MaxTokens) : Start(join(ts, <<>>))

InitComments == \E ls \in SeqsUpTo(CommentPieces, MaxLines) : Start(join(ls, <<"\n">>))

InitLine == \E ts \in SeqsUpTo(LineTokens, MaxLineTokens) : Start(join(ts, <<>>))

\* The line the loop is at, and its classification.
line == lns[idx + 1].s

Scanning == pc = "scan" /\ idx < Len(lns)

\* Line 68: the text is normalized and split into lines.
Normalize ==
    /\ pc = "start"
    /\ norm' = remove_multi_line_comments(text)
    /\ lns' = lines(norm')
    /\ classes' = [i \in 1..Len(lns') |-> parse_line(lns'[i].s)]
    /\ pc' = "scan"
    /\ UNCHANGED <<text, idx, last_type, last_tag, queries, result>>

\* What `continue` leaves as it is; the loop goes to the next line.
Continue ==
    /\ idx' = idx + 1
    /\ UNCHANGED <<text, pc, norm, lns, last_type, last_tag, queries, result, classes>>

\* Lines 72-74: an empty line.
SkipEmptyLine_mut_ends_tag ==
    /\ Scanning
    /\ line = <<>>
    /\ idx' = idx + 1
    /\ last_tag' = None
    /\ UNCHANGED <<text, pc, norm, lns, last_type, queries, result, classes>>

SkipEmptyLine ==
    /\ Scanning
    /\ line = <<>>
    /\ Continue

\* Line 78: LineType::Empty.
SkipBlank_mut_records_type ==
    /\ Scanning
    /\ line # <<>>
    /\ parse_line(line).ty = "Empty"
    /\ idx' = idx + 1
    /\ last_type' = "Empty"
    /\ UNCHANGED <<text, pc, norm, lns, last_tag, queries, result, classes>>

SkipBlank ==
    /\ Scanning
    /\ line # <<>>
    /\ parse_line(line).ty = "Empty"
    /\ Continue

\* `return Err(e)`: the call is over, with e alone.
ReturnErr(e) ==
    /\ result' = e
    /\ pc' = "done"
    /\ UNCHANGED <<text, norm, lns, idx, last_type, last_tag, queries, classes>>

\* Lines 80-85: a tag line right after a tag line.
TagOverwritten_mut_goes_on ==
    /\ Scanning
    /\ line # <<>>
    /\ parse_line(line).ty = "Tag"
    /\ last_type = "Tag"
    /\ result' = [kind |-> "TagOverwritten", line |-> idx + 1, tag |-> parse_line(line).value]
    /\ idx' = idx + 1
    /\ UNCHANGED <<text, pc, norm, lns, last_type, last_tag, queries, classes>>

TagOverwritten ==
    /\ Scanning
    /\ line # <<>>
    /\ parse_line(line).ty = "Tag"
    /\ last_type = "Tag"
    /\ ReturnErr([kind |-> "TagOverwritten", line |-> idx + 1,
                  tag |-> parse_line(line).value])

\* Lines 79-88 and 106: a tag line that is accepted.
TagLine_mut_keeps_last_tag ==
    /\ Scanning
    /\ line # <<>>
    /\ parse_line(line).ty = "Tag"
    /\ last_type # "Tag"
    /\ last_type' = "Tag"
    /\ idx' = idx + 1
    /\ UNCHANGED <<text, pc, norm, lns, last_tag, queries, result, classes>>

TagLine_mut_inserts ==
    /\ Scanning
    /\ line # <<>>
    /\ parse_line(line).ty = "Tag"
    /\ last_type # "Tag"
    /\ last_tag' = Some(parse_line(line).value)
    /\ last_type' = "Tag"
    /\ idx' = idx + 1
    /\ queries' = IF get_index_of(queries, parse_line(line).value) = 0
                  THEN Append(queries, [key |-> parse_line(line).value, value |-> <<>>])
                  ELSE queries
    /\ UNCHANGED <<text, pc, norm, lns, result, classes>>

TagLine ==
    /\ Scanning
    /\ line # <<>>
    /\ parse_line(line).ty = "Tag"
    /\ last_type # "Tag"
    /\ last_tag' = Some(parse_line(line).value)
    /\ last_type' = "Tag"
    /\ idx' = idx + 1
    /\ UNCHANGED <<text, pc, norm, lns, queries, result, classes>>

\* Lines 90-95: a query line before any tag.
QueryWithoutTag_mut_index ==
    /\ Scanning
    /\ line # <<>>
    /\ parse_line(line).ty = "Query"
    /\ ~last_tag.some
    /\ ReturnErr([kind |-> "QueryWithoutTag", line |-> idx,
                  query |-> parse_line(line).value])

QueryWithoutTag ==
    /\ Scanning
    /\ line # <<>>
    /\ parse_line(line).ty = "Query"
    /\ ~last_tag.some
    /\ ReturnErr([kind |-> "QueryWithoutTag", line |-> idx + 1,
                  query |-> parse_line(line).value])

\* Lines 89-103 and 106: a query line under the active tag.
QueryLine ==
    /\ Scanning
    /\ line # <<>>
    /\ parse_line(line).ty = "Query"
    /\ last_tag.some
    /\ queries' = entry(queries, last_tag.v, parse_line(line).value)
    /\ last_type' = "Query"
    /\ idx' = idx + 1
    /\ UNCHANGED <<text, pc, norm, lns, last_tag, result, classes>>

\* Line 109: the loop is over.
ReturnOk ==
    /\ pc = "scan"
    /\ idx = Len(lns)
    /\ result' = [kind |-> "Ok", map |-> queries]
    /\ pc' = "done"
    /\ UNCHANGED <<text, norm, lns, idx, last_type, last_tag, queries, classes>>

Next ==
    \/ Normalize
    \/ SkipEmptyLine
    \/ SkipBlank
    \/ TagOverwritten
    \/ TagLine
    \/ QueryWithoutTag
    \/ QueryLine
    \/ ReturnOk

Spec == Init /\ [][Next]_vars

\* remove_multi_line_comments alone, on every text of up to MaxTokens tokens.
NextNorm == Normalize

SpecNorm == InitNorm /\ [][NextNorm]_vars

\* parse on every text of one line of up to MaxLineTokens tokens: the steps a
\* single line can take.
NextLine ==
    \/ Normalize
    \/ SkipBlank
    \/ TagLine
    \/ QueryWithoutTag
    \/ ReturnOk

SpecLine == InitLine /\ [][NextLine]_vars

\* parse on the texts made of CommentPieces.
SpecComments == InitComments /\ [][Next]_vars

----------------------------------------------------------------------------
(* What the claims are stated in: the lines parse scans, by number.        *)

Errors == {"TagOverwritten", "QueryWithoutTag"}

\* The classification and the text of line i (1-based).
Ty(i) == classes[i].ty

Val(i) == classes[i].value

\* The lines parse has been through: idx lines without an error, and the line
\* of the error when it returned one.
Reached == 1..(IF result.kind \in Errors THEN idx + 1 ELSE idx)

\* The last line before line i that is not blank; 0 when there is none.
PrevNonBlank(i) ==
    LET S == {j \in 1..(i - 1) : Ty(j) # "Empty"}
    IN  IF S = {} THEN 0 ELSE Max(S)

\* Line i is a tag line and so is the last non-blank line before it.
TagAfterTag(i) ==
    /\ Ty(i) = "Tag"
    /\ PrevNonBlank(i) # 0
    /\ Ty(PrevNonBlank(i)) = "Tag"

\* Line i is a query line and no line before it is a tag line.
QueryBeforeTag(i) ==
    /\ Ty(i) = "Query"
    /\ \A j \in 1..(i - 1) : Ty(j) # "Tag"

\* s has no whitespace at either end.
Trimmed(s) == s = <<>> \/ (~IsSpace(s[1]) /\ ~IsSpace(s[Len(s)]))

\* The tag line that owns query line i: the nearest tag line before it.
OwnerLine(i) == Max({j \in 1..(i - 1) : Ty(j) = "Tag"})

\* The query lines attributed to tag t, in order.
FragLines(t) ==
    SelectSeq([i \in 1..Len(lns) |-> i],
              LAMBDA i : /\ Ty(i) = "Query"
                         /\ \E j \in 1..(i - 1) : Ty(j) = "Tag"
                         /\ Val(OwnerLine(i)) = t)

\* The fragments attributed to tag t, in order.
Frags(t) ==
    LET fl == FragLines(t)
    IN  [k \in 1..Len(fl) |-> Val(fl[k])]

\* The tags the input declares, and the line that first declares tag t.
DeclaredTags == {Val(i) : i \in {j \in 1..Len(lns) : Ty(j) = "Tag"}}

FirstDecl(t) == Min({i \in 1..Len(lns) : Ty(i) = "Tag" /\ Val(i) = t})

\* The keys of map m, and the positions of key k in it.
Keys(m) == {m[k].key : k \in 1..Len(m)}

PositionsOf(m, k) == {j \in 1..Len(m) : m[j].key = k}

----------------------------------------------------------------------------
(* C1 *)

\* C1: a tag line that parse reaches and whose previous non-blank line is a
\* tag line too, whatever blank lines lie between, makes parse return
\* TagOverwritten with that line's number and that tag; and parse returns
\* TagOverwritten for no other line (not when a query line lies between).
C1_TagOverwritten ==
    /\ \A i \in Reached :
          TagAfterTag(i) =>
             result = [kind |-> "TagOverwritten", line |-> i, tag |-> Val(i)]
    /\ result.kind = "TagOverwritten" =>
          /\ result.line \in Reached
          /\ TagAfterTag(result.line)
          /\ \A j \in PrevNonBlank(result.line)..result.line : Ty(j) # "Query"

\* TagOverwritten across lines that are skipped, one of them a comment line.
C1_Witness ==
    /\ result.kind = "TagOverwritten"
    /\ PrevNonBlank(result.line) < result.line - 1
    /\ \E j \in (PrevNonBlank(result.line) + 1)..(result.line - 1) : lns[j].s # <<>>

----------------------------------------------------------------------------
(* C2 *)

\* C2: parse returns QueryWithoutTag exactly for a query line it reaches
\* before any tag line, with that line's number and its trimmed text without
\* the line comment; after a tag line no line gives QueryWithoutTag.
C2_QueryWithoutTag ==
    /\ \A i \in Reached :
          QueryBeforeTag(i) <=>
             result = [kind |-> "QueryWithoutTag", line |-> i, query |-> Val(i)]
    /\ result.kind = "QueryWithoutTag" =>
          /\ result.line \in Reached
          /\ \A j \in 1..result.line : Ty(j) # "Tag"
          /\ result.query # <<>>
          /\ Trimmed(result.query)
          /\ find(result.query, <<"-", "-">>) = 0

\* QueryWithoutTag below skipped lines, for a line that carries a line comment.
C2_Witness ==
    /\ result.kind = "QueryWithoutTag"
    /\ result.line > 1
    /\ result.query # lns[result.line].s

----------------------------------------------------------------------------
(* C3 *)

\* C3: in the map parse returns, every query line's tag (the nearest tag line
\* before it) is a key exactly once, and the value of a key is the fragments
\* of that tag in order, joined by one space.
C3_Fragments ==
    result.kind = "Ok" =>
       /\ \A i \in 1..Len(lns) :
             Ty(i) = "Query" =>
                Cardinality(PositionsOf(result.map, Val(OwnerLine(i)))) = 1
       /\ \A k \in 1..Len(result.map) :
             /\ Frags(result.map[k].key) # <<>>
             /\ result.map[k].value = join(Frags(result.map[k].key), <<" ">>)

\* A returned map of two keys, one of them with two different fragments.
C3_Witness ==
    /\ result.kind = "Ok"
    /\ Len(result.map) >= 2
    /\ \E k \in 1..Len(result.map) :
          LET f == Frags(result.map[k].key)
          IN  Len(f) >= 2 /\ f[1] # f[2]

----------------------------------------------------------------------------
(* C4 *)

\* Every tag line is followed by a query line with no tag line in between.
WellFormed ==
    \A i \in 1..Len(lns) :
       Ty(i) = "Tag" =>
          \E k \in (i + 1)..Len(lns) :
             /\ Ty(k) = "Query"
             /\ \A j \in (i + 1)..(k - 1) : Ty(j) # "Tag"

\* C4: for a well-formed input, the keys of the returned map are the declared
\* tags, each once, in the order of their first declarations.
C4_KeyOrder ==
    (result.kind = "Ok" /\ WellFormed) =>
       /\ Keys(result.map) = DeclaredTags
       /\ \A a, b \in 1..Len(result.map) :
             a < b => FirstDecl(result.map[a].key) < FirstDecl(result.map[b].key)

\* A well-formed input that declares y before x, and x twice.
C4_Witness ==
    /\ result.kind = "Ok"
    /\ WellFormed
    /\ Len(result.map) = 2
    /\ result.map[1].key = <<"y">>
    /\ result.map[2].key = <<"x">>

----------------------------------------------------------------------------
(* C5 *)

\* The number of the line of the input text that position p lies on.
OrigLineOf(p) == 1 + Cardinality({q \in 1..(p - 1) : text[q] = "\n"})

\* C5: the line number of an error is the number, in the input text as it was
\* given, of the line that every character of the offending line lies on.
C5_LineNumber ==
    result.kind \in Errors =>
       /\ result.line \in 1..Len(lns)
       /\ lns[result.line].s # <<>>
       /\ parse_line(lns[result.line].s).value
             = (IF result.kind = "TagOverwritten" THEN result.tag ELSE result.query)
       /\ \A p \in lns[result.line].start
                    ..(lns[result.line].start + Len(lns[result.line].s) - 1) :
             OrigLineOf(p) = result.line

\* An error below a block comment that runs over a line break.
C5_Witness ==
    /\ result.kind \in Errors
    /\ \E p, q, r \in 1..lns[result.line].start :
          /\ p < q /\ q < r
          /\ text[p] # norm[p]
          /\ text[q] = "\n"
          /\ text[r] # norm[r]

----------------------------------------------------------------------------
(* C6 *)

\* Line i breaks a rule: a tag line right after a tag line, or a query line
\* before any tag line.  Only the lines up to i decide it.
Violation(i) == TagAfterTag(i) \/ QueryBeforeTag(i)

----------------------------------------------------------------------------
(* C7 *)

\* C7: every tag is non-empty and has no whitespace at either end: the active
\* tag, the keys of the map and the tag of a TagOverwritten error.
C7_TagNonEmptyTrimmed ==
    /\ last_tag.some => (last_tag.v # <<>> /\ Trimmed(last_tag.v))
    /\ \A k \in 1..Len(queries) : queries[k].key # <<>> /\ Trimmed(queries[k].key)
    /\ result.kind = "TagOverwritten" => (result.tag # <<>> /\ Trimmed(result.tag))
    /\ result.kind = "Ok" =>
          \A k \in 1..Len(result.map) :
             result.map[k].key # <<>> /\ Trimmed(result.map[k].key)

----------------------------------------------------------------------------
(* C8 *)

\* Line j declares a tag again that an earlier line declared, with a query
\* line between the two.
Redeclares(j) ==
    /\ Ty(j) = "Tag"
    /\ \E i \in 1..(j - 1) :
          /\ Ty(i) = "Tag"
          /\ Val(i) = Val(j)
          /\ \E q \in (i + 1)..(j - 1) : Ty(q) = "Query"
    /\ Ty(PrevNonBlank(j)) = "Query"

----------------------------------------------------------------------------
(* C9 *)

\* C9: TagOverwritten is returned only for a tag that a line above already
\* declared.  Stated for the inputs whose tags all have a name, so that a
\* violation owes nothing to the tags without text of C7.
C9_SameNameExists ==
    (result.kind = "TagOverwritten" /\ <<>> \notin DeclaredTags) =>
       \E j \in 1..(result.line - 1) : Ty(j) = "Tag" /\ Val(j) = result.tag

----------------------------------------------------------------------------
(* C10 *)

\* A comment of s opens with the / at position a and closes with the / at
\* position b: /* at a, */ ending at b, and no */ in between.
ClosesAt(s, a, b) ==
    /\ a >= 1 /\ b <= Len(s) /\ b >= a + 3
    /\ s[a] = "/" /\ s[a + 1] = "*"
    /\ s[b - 1] = "*" /\ s[b] = "/"
    /\ \A c \in (a + 3)..(b - 1) : ~(s[c - 1] = "*" /\ s[c] = "/")

\* The positions of s from position from on that lie inside a span: the
\* first span opens at the first /* that has a */ after it and ends with the
\* first such */, and the next one is looked for after that end.
RECURSIVE CoveredFrom(_, _)
CoveredFrom(s, from) ==
    LET opens == {a \in from..Len(s) : \E b \in (a + 3)..Len(s) : ClosesAt(s, a, b)}
    IN  IF opens = {} THEN {}
        ELSE LET a == Min(opens)
                 b == CHOOSE e \in (a + 3)..Len(s) : ClosesAt(s, a, e)
             IN  (a..b) \cup CoveredFrom(s, b + 1)

Covered(s) == CoveredFrom(s, 1)

\* C10: the normalized text is as long as the input; a character outside
\* every span is the input's, a character inside a span is \r or \n where the
\* input has one and a space otherwise; an input with no closed /* ... */ is
\* returned as it is.
C10_Normalizer ==
    pc # "start" =>
       /\ Len(norm) = Len(text)
       /\ \A p \in 1..Len(text) :
             norm[p] = (IF p \in Covered(text)
                        THEN (IF text[p] \in {"\r", "\n"} THEN text[p] ELSE " ")
                        ELSE text[p])
       /\ (\A a, b \in 1..Len(text) : ~ClosesAt(text, a, b)) => norm = text

\* A span that holds a line break and a second */ after it that stays.
C10_Witness ==
    /\ pc # "start"
    /\ \E p, q \in 1..Len(text) :
          /\ p < q
          /\ p \in Covered(text)
          /\ text[p] \in {"\r", "\n"}
          /\ norm[p] = text[p]
          /\ q \notin Covered(text)
          /\ text[q] = "*"
          /\ q + 1 <= Len(text) /\ text[q + 1] = "/"
          /\ norm[q] = "*"

\* The spans of s from position from on, each as <<a, b>>: the / that opens
\* it and the / that closes it.
RECURSIVE SpansFrom(_, _)
SpansFrom(s, from) ==
    LET opens == {a \in from..(Len(s) - 3) :
                     /\ s[a] = "/" /\ s[a + 1] = "*"
                     /\ \E b \in (a + 3)..Len(s) : s[b - 1] = "*" /\ s[b] = "/"}
    IN  IF opens = {} THEN {}
        ELSE LET a == Min(opens)
                 b == Min({e \in (a + 3)..Len(s) : s[e - 1] = "*" /\ s[e] = "/"})
             IN  {<<a, b>>} \cup SpansFrom(s, b + 1)

Spans(s) == SpansFrom(s, 1)

----------------------------------------------------------------------------
(* C11 *)

\* C11: normalizing the normalized text gives the normalized text again, and
\* the normalized text holds no /* with a */ after it.
C11_Idempotent ==
    pc # "start" =>
       /\ remove_multi_line_comments(norm) = norm
       /\ \A a, b \in 1..Len(norm) : ~ClosesAt(norm, a, b)

\* Two spans were blanked, and a /* that no */ follows is left in the text.
C11_Witness ==
    /\ pc # "start"
    /\ Cardinality(Spans(text)) >= 2
    /\ \E r \in 1..(Len(norm) - 1) : norm[r] = "/" /\ norm[r + 1] = "*"

----------------------------------------------------------------------------
(* C12 *)

\* C12: the normalized text has as many lines as the input, and every line
\* starts at the position and has the length it has in the input.
C12_LineCount ==
    pc # "start" =>
       LET ol == lines(text)
       IN  /\ Len(lns) = Len(ol)
           /\ \A i \in 1..Len(ol) :
                 /\ lns[i].start = ol[i].start
                 /\ Len(lns[i].s) = Len(ol[i].s)

\* A span that runs over a line break, with \r\n, in a text of three lines.
C12_Witness ==
    /\ pc # "start"
    /\ Len(lns) >= 2
    /\ \E p \in Covered(text) :
          /\ p > 1
          /\ text[p] = "\n"
          /\ text[p - 1] = "\r"
          /\ p + 1 \in Covered(text)

----------------------------------------------------------------------------
(* C13 *)

\* Positions a..b of s hold whitespace only.
AllSpace(s, a, b) == \A k \in a..b : IsSpace(s[k])

\* l is whitespace, --, whitespace, name, whitespace and a colon at position
\* i3, from its start on.
TagShape(l, i3) ==
    \E i1 \in 1..Len(l) :
       /\ AllSpace(l, 1, i1 - 1)
       /\ i1 + 1 <= Len(l) /\ l[i1] = "-" /\ l[i1 + 1] = "-"
       /\ \E i2 \in (i1 + 2)..(i3 - 4) :
             /\ AllSpace(l, i1 + 2, i2 - 1)
             /\ l[i2] = "n" /\ l[i2 + 1] = "a" /\ l[i2 + 2] = "m" /\ l[i2 + 3] = "e"
             /\ AllSpace(l, i2 + 4, i3 - 1)
             /\ l[i3] = ":"

IsTagLine(l) == \E i3 \in 1..Len(l) : TagShape(l, i3)

\* v is s without the whitespace at its two ends.
TrimOf(s, v) ==
    /\ Trimmed(v)
    /\ \E a \in 1..(Len(s) + 1) :
          /\ AllSpace(s, 1, a - 1)
          /\ \E b \in (a - 1)..Len(s) :
                AllSpace(s, b + 1, Len(s)) /\ v = SubSeq(s, a, b)

\* l up to its first -- .
BeforeDashes(l) ==
    LET ds == {d \in 1..(Len(l) - 1) : l[d] = "-" /\ l[d + 1] = "-"}
    IN  IF ds = {} THEN l ELSE SubSeq(l, 1, Min(ds) - 1)

\* C13: a line is a Tag exactly when it has the tag pattern from its start on,
\* and then its tag is all the text after the colon, trimmed, a -- in it
\* included; any other line is its text before the first --, trimmed: Empty
\* when that is nothing, a Query with that text otherwise.  parse acts on the
\* line by that class.
C13_ParseLine ==
    (pc # "start" /\ Len(lns) = 1) =>
       LET l == lns[1].s
           c == classes[1]
       IN  /\ c.ty \in {"Tag", "Query", "Empty"}
           /\ (c.ty = "Tag") = IsTagLine(l)
           /\ c.ty = "Tag" =>
                 \A i3 \in 1..Len(l) :
                    TagShape(l, i3) => TrimOf(SubSeq(l, i3 + 1, Len(l)), c.value)
           /\ c.ty # "Tag" =>
                 /\ TrimOf(BeforeDashes(l), c.value)
                 /\ (c.ty = "Empty") = (c.value = <<>>)
           /\ idx = 1 =>
                 /\ c.ty # "Query"
                 /\ c.ty = "Tag" => (last_type = "Tag" /\ last_tag = Some(c.value))
                 /\ c.ty = "Empty" => (last_type = "None" /\ last_tag = None)
           /\ result.kind \in Errors =>
                 (c.ty = "Query" /\ result.kind = "QueryWithoutTag"
                                 /\ result.query = c.value)

\* A line with the tag pattern after other text is the query before its -- .
C13_Witness ==
    /\ result.kind = "QueryWithoutTag"
    /\ result.query = <<"x">>
    /\ \E k \in 2..Len(text) : IsTagLine(SubSeq(text, k, Len(text)))

----------------------------------------------------------------------------
(* C14 *)

\* The numbers of the lines that are not blank, in order, and their classes:
\* the input without its blank lines.
NonBlank == SelectSeq([i \in 1..Len(lns) |-> i], LAMBDA i : Ty(i) # "Empty")

\* In the sequence cs of classes without blank lines, entry k breaks a rule.
BreaksRule(cs, k) ==
    \/ cs[k].ty = "Tag" /\ k > 1 /\ cs[k - 1].ty = "Tag"
    \/ cs[k].ty = "Query" /\ \A j \in 1..(k - 1) : cs[j].ty # "Tag"

\* The entries of cs that are fragments of tag t, in order.
FragsIn(cs, t) ==
    SelectSeq([k \in 1..Len(cs) |-> k],
              LAMBDA k : /\ cs[k].ty = "Query"
                         /\ \E j \in 1..(k - 1) : cs[j].ty = "Tag"
                         /\ cs[Max({j \in 1..(k - 1) : cs[j].ty = "Tag"})].value = t)

\* The result r is what the non-blank lines alone decide: the error of the
\* first entry of cs that breaks a rule, numbered by nb, or else the map of
\* the tags that have fragments, in the order of their first fragments.
DecidedBy(cs, nb, r) ==
    LET bad == {k \in 1..Len(cs) : BreaksRule(cs, k)}
    IN  IF bad # {}
        THEN LET k == Min(bad)
             IN  r = IF cs[k].ty = "Tag"
                     THEN [kind |-> "TagOverwritten", line |-> nb[k], tag |-> cs[k].value]
                     ELSE [kind |-> "QueryWithoutTag", line |-> nb[k], query |-> cs[k].value]
        ELSE /\ r.kind = "Ok"
             /\ Keys(r.map) = {cs[k].value : k \in {j \in 1..Len(cs) :
                                   cs[j].ty = "Tag" /\ FragsIn(cs, cs[j].value) # <<>>}}
             /\ \A a \in 1..Len(r.map) :
                   LET f == FragsIn(cs, r.map[a].key)
                   IN  /\ r.map[a].value = join([k \in 1..Len(f) |-> cs[f[k]].value], <<" ">>)
                       /\ \A b \in (a + 1)..Len(r.map) :
                             f[1] < FragsIn(cs, r.map[b].key)[1]

\* The step over a blank line changes nothing but the line the loop is at.
BlankLineStep ==
    (pc = "scan" /\ idx < Len(lns) /\ Ty(idx + 1) = "Empty" /\ idx' # idx) =>
       /\ idx' = idx + 1
       /\ UNCHANGED <<last_type, last_tag, queries, result, pc>>

----------------------------------------------------------------------------
(* C15 *)

\* Line i of the text is commented out: it has text, and all of it that is
\* not white space lies in the /* ... */ spans sp.
CommentedOut(sp, i) ==
    LET ps == lns[i].start..(lns[i].start + Len(lns[i].s) - 1)
    IN  /\ \E p \in ps : ~IsSpace(text[p])
        /\ \A p \in ps : IsSpace(text[p]) \/ \E ab \in sp : ab[1] <= p /\ p <= ab[2]

\* C15: a line of the text that lies inside /* ... */ spans takes no part in
\* parsing: it is scanned as a blank line, it is never the line of an error,
\* never the declaration of the active tag and never a fragment of the map.
C15_CommentedOut ==
    pc # "start" =>
       LET sp == Spans(text)
       IN  \A i \in 1..Len(lns) :
              CommentedOut(sp, i) =>
                 /\ Ty(i) = "Empty"
                 /\ result.kind \in Errors => result.line # i
                 /\ (last_tag.some /\ idx >= i) =>
                       \E j \in 1..idx : j # i /\ Ty(j) = "Tag" /\ Val(j) = last_tag.v
                 /\ \A t \in DeclaredTags :
                       \A k \in 1..Len(FragLines(t)) : FragLines(t)[k] # i

\* A tag declaration right after a tag, and a query line, both inside one
\* span, in an input that parses although read raw it would not.
C15_Witness ==
    /\ result.kind = "Ok"
    /\ \E i \in 2..Len(lns) :
          /\ CommentedOut(Spans(text), i)
          /\ parse_line(lines(text)[i].s).ty = "Tag"
          /\ \E j \in 1..(i - 1) : Ty(j) = "Tag" /\ \A k \in (j + 1)..i : Ty(k) = "Empty"
    /\ \E i \in 1..Len(lns) :
          /\ CommentedOut(Spans(text), i)
          /\ parse_line(lines(text)[i].s).ty = "Query"

----------------------------------------------------------------------------
(* C16 *)

\* The last non-blank line of the input is a tag line.
EndsWithTag == NonBlank # <<>> /\ Ty(NonBlank[Len(NonBlank)]) = "Tag"

TrailingTag == Val(NonBlank[Len(NonBlank)])

\* A step that changes the map is the step of a query line.
OnlyQueriesStore ==
    queries' # queries => (pc = "scan" /\ idx < Len(lns) /\ Ty(idx + 1) = "Query")

\* C16 as stated: an input whose last non-blank line is a tag declaration
\* parses successfully, whatever its other lines are.
C16_TrailingTagAlwaysOk ==
    (pc = "done" /\ EndsWithTag) => result.kind = "Ok"

\* C16, amended: only the steps of query lines change the map; an input whose
\* last non-blank line is a tag declaration and none of whose lines breaks a
\* rule parses successfully, with that tag a key of the result exactly when an
\* earlier declaration of it has fragments; every value of a returned map is
\* non-empty.
C16_TagLines ==
    /\ [][OnlyQueriesStore]_vars
    /\ []((pc = "done" /\ EndsWithTag /\ \A i \in 1..Len(lns) : ~Violation(i)) =>
             /\ result.kind = "Ok"
             /\ (TrailingTag \in Keys(result.map)) = (Frags(TrailingTag) # <<>>))
    /\ [](result.kind = "Ok" => \A k \in 1..Len(result.map) : result.map[k].value # <<>>)

\* A successful parse of an input that ends with the declaration of a tag
\* without fragments, after another tag that has one.
C16_Witness ==
    /\ result.kind = "Ok"
    /\ EndsWithTag
    /\ result.map # <<>>
    /\ TrailingTag \notin Keys(result.map)

----------------------------------------------------------------------------
(* C17 *)

\* C17: in every state of parse, before any tag is declared last_type is none
\* and the map is empty; when last_type is Tag or Query a tag is active; when
\* last_type is Query the active tag is a key of the map; and every fragment
\* was stored (line 97, last_tag.unwrap) under a tag that had been declared.
C17_ScanInvariant ==
    /\ last_type \in {"None", "Tag", "Query"}
    /\ ~last_tag.some => (last_type = "None" /\ queries = <<>>)
    /\ last_type \in {"Tag", "Query"} => last_tag.some
    /\ last_type = "Query" => get_index_of(queries, last_tag.v) # 0
    /\ \A k \in 1..Len(queries) :
          \E j \in 1..idx : Ty(j) = "Tag" /\ Val(j) = queries[k].key

\* Scanning, with a query line next, after a fragment of the active tag was
\* added to a map where another tag comes first.
C17_Witness ==
    /\ Scanning
    /\ Ty(idx + 1) = "Query"
    /\ last_type = "Query"
    /\ Len(queries) = 2
    /\ get_index_of(queries, last_tag.v) = 2

----------------------------------------------------------------------------
(* C18 *)

\* Position a of s comes after a -- on its line.
AfterDashes(s, a) ==
    \E d \in 1..(a - 2) : /\ s[d] = "-" /\ s[d + 1] = "-"
                          /\ \A k \in d..a : s[k] # "\n"

\* The first position after the last /* ... */ span of the text.
AfterSpans(sp) == IF sp = {} THEN 1 ELSE Max({ab[2] : ab \in sp}) + 1

\* C18: nothing is classified before the text is normalized, and the
\* normalizer knows nothing of line comments: a /* after -- on its line, not
\* inside an earlier span and with a */ after it, opens a span as any other;
\* every span is blanked and the lines in it are blank lines; after the last
\* span, which is where a /* that is never closed lies, nothing is blanked
\* and the lines are classified as the lines of the text are.
C18_NormalizeFirst ==
    /\ pc = "start" =>
          /\ classes = <<>> /\ idx = 0 /\ last_type = "None" /\ ~last_tag.some
          /\ queries = <<>> /\ result.kind = "none"
    /\ pc # "start" =>
          LET sp == Spans(text)
          IN  /\ \A a \in 1..(Len(text) - 3) :
                    ( /\ text[a] = "/" /\ text[a + 1] = "*"
                      /\ AfterDashes(text, a)
                      /\ \A ab \in sp : ~(ab[1] < a /\ a <= ab[2])
                      /\ \E b \in (a + 3)..Len(text) : text[b - 1] = "*" /\ text[b] = "/" )
                    => \E ab \in sp : ab[1] = a
              /\ \A ab \in sp : \A p \in ab[1]..ab[2] : norm[p] = nc(text[p])
              /\ \A i \in 1..Len(lns) : CommentedOut(sp, i) => Ty(i) = "Empty"
              /\ SubSeq(norm, AfterSpans(sp), Len(norm)) = SubSeq(text, AfterSpans(sp), Len(text))
              /\ \A i \in 1..Len(lns) :
                    lns[i].start >= AfterSpans(sp) =>
                       classes[i] = parse_line(lines(text)[i].s)

\* A parse that succeeds on a text where a /* inside a line comment blanks a
\* tag line and a query line, and where a later /* that is never closed is a
\* fragment and leaves the tag line and the query line after it as they are.
C18_Witness ==
    /\ result.kind = "Ok"
    /\ \E ab \in Spans(text) :
          /\ AfterDashes(text, ab[1])
          /\ \E i, j \in 1..Len(lns) :
                /\ ab[1] < lns[i].start /\ lns[i].start < ab[2]
                /\ ab[1] < lns[j].start /\ lns[j].start < ab[2]
                /\ parse_line(lines(text)[i].s).ty = "Tag"
                /\ parse_line(lines(text)[j].s).ty = "Query"
                /\ Ty(i) = "Empty" /\ Ty(j) = "Empty"
    /\ \E a \in AfterSpans(Spans(text))..(Len(text) - 1) :
          /\ text[a] = "/" /\ text[a + 1] = "*"
          /\ \E k \in 1..Len(result.map) :
                \E q \in 1..(Len(result.map[k].value) - 1) :
                   result.map[k].value[q] = "/" /\ result.map[k].value[q + 1] = "*"
          /\ \E i, j \in 1..Len(lns) :
                /\ lns[i].start > a /\ Ty(i) = "Tag"
                /\ lns[j].start > a /\ Ty(j) = "Query"

====
